---- MODULE Spec2Model ----
(***************************************************************************)
(* Model of src/src/charts/line/Cursor.tsx: the nearest-index search       *)
(* findClosestIndex, the JS-thread function linearScalePositionAndIndex    *)
(* and the gesture handlers onActive / onEnd of LineChartCursor.           *)
(*                                                                         *)
(* Arrays are functions over 0..n-1 so that indices are the source's.      *)
(* Numbers are integers.  A query lying between two integer keys is        *)
(* reached with keys that are two or more apart: findClosestIndex only     *)
(* compares keys with the query and compares two absolute differences, so  *)
(* multiplying keys and query by a positive factor leaves its result       *)
(* unchanged.                                                              *)
(***************************************************************************)
EXTENDS Integers, Sequences, FiniteSets, TLC

VARIABLES
  \* ---- one call of linearScalePositionAndIndex, stepped (SpecLocate) ----
  timestamps,        \* argument `timestamps` of findClosestIndex
  xRelative,         \* argument `xRelative`
  left,              \* local `left`
  right,             \* local `right`
  pc,                \* position inside the call
  closestIndex,      \* value returned by findClosestIndex (NoIndex before)
  curves,            \* path.curves.length of the call's `path`
  closestPathCurve,  \* local `closestPathCurve`
  \* ---- the cursor component and its shared values (SpecGesture) ----
  data,              \* timestamps of `data`, a function over 0..n-1
  width,             \* pathWidth
  snapToPoint,       \* prop snapToPoint
  xDomain,           \* Undefined or [min, max]
  parsedPath,        \* Undefined or [curves |-> c]
  currentX,          \* shared value currentX
  currentIndex,      \* shared value currentIndex
  isActive,          \* shared value isActive
  jsQueue,           \* calls handed to runOnJS and not yet run, oldest first
  gesture            \* last gesture event handled: "none", "active", "end"

vars == <<timestamps, xRelative, left, right, pc, closestIndex, curves,
          closestPathCurve, data, width, snapToPoint, xDomain, parsedPath,
          currentX, currentIndex, isActive, jsQueue, gesture>>

locateVars == <<timestamps, xRelative, left, right, pc, closestIndex, curves,
                closestPathCurve>>

gestureVars == <<data, width, snapToPoint, xDomain, parsedPath, currentX,
                 currentIndex, isActive, jsQueue, gesture>>

\* ---- bounds ----
MaxLen == 4
MaxKey == 10
QMargin == 1
MaxCurves == 4
MaxN == 3
MaxTs == 2
MaxWidth == 3
XMargin == 1
MaxPending == 2
MaxPathCurves == 2

Undefined == [undefined |-> TRUE]
NoIndex == -1

Length(a) == Cardinality(DOMAIN a)

Ascending(a) == \A i \in DOMAIN a : \A j \in DOMAIN a : i <= j => a[i] <= a[j]

KeyArrays == UNION {{a \in [0..(n - 1) -> 0..MaxKey] : Ascending(a)} : n \in 1..MaxLen}

Queries == (0 - QMargin)..(MaxKey + QMargin)

abs(a) == IF a < 0 THEN 0 - a ELSE a

max(a, b) == IF a >= b THEN a ELSE b

min(a, b) == IF a <= b THEN a ELSE b

\* ---- findClosestIndex, piece by piece ----
lowEdge(ts, x, l) == x <= ts[l]

highEdgeStrict(ts, x, r) == x > ts[r]

highEdge(ts, x, r) == x >= ts[r]

loopCondStrict(l, r) == l < r

loopCond(l, r) == l <= r

midOf(l, r) == (l + r) \div 2

matchReturnLeft(l, m, r) == l

matchReturn(l, m, r) == m

closerAlwaysLeft(ts, x, l, r) == l

closerStrict(ts, x, l, r) ==
  LET leftDiff == abs(ts[l] - x)
      rightDiff == abs(ts[r] - x)
  IN IF leftDiff < rightDiff THEN l ELSE r

closerSwapped(ts, x, l, r) ==
  LET leftDiff == abs(ts[l] - x)
      rightDiff == abs(ts[r] - x)
  IN IF leftDiff <= rightDiff THEN r ELSE l

closer(ts, x, l, r) ==
  LET leftDiff == abs(ts[l] - x)
      rightDiff == abs(ts[r] - x)
  IN IF leftDiff <= rightDiff THEN l ELSE r

RECURSIVE searchLoop(_, _, _, _)
searchLoop(ts, x, l, r) ==
  IF loopCond(l, r)
  THEN LET mid == midOf(l, r)
       IN IF ts[mid] = x THEN matchReturn(l, mid, r)
          ELSE IF ts[mid] < x THEN searchLoop(ts, x, mid + 1, r)
          ELSE searchLoop(ts, x, l, mid - 1)
  ELSE closer(ts, x, l, r)

findClosestIndex(ts, x) ==
  LET l == 0
      r == Length(ts) - 1
  IN IF lowEdge(ts, x, l) THEN l
     ELSE IF highEdge(ts, x, r) THEN r
     ELSE searchLoop(ts, x, l, r)

\* ---- the curve index of linearScalePositionAndIndex ----
curveIndexNoDelta(i, c, n) == max(min(i, c + 1), 0)

curveIndex(i, c, n) ==
  LET pathDataDelta == abs(c - n)
  IN max(min(i, c + 1) - pathDataDelta, 0)

\* ---- SpecLocate: one call, one step at a time ----
LocateIdle ==
  /\ timestamps = [i \in 0..0 |-> 0]
  /\ xRelative = 0
  /\ left = 0
  /\ right = 0
  /\ pc = "entry"
  /\ closestIndex = NoIndex
  /\ curves = 0
  /\ closestPathCurve = NoIndex

GestureIdle ==
  /\ data = [i \in 0..1 |-> i]
  /\ width = 1
  /\ snapToPoint = FALSE
  /\ xDomain = Undefined
  /\ parsedPath = Undefined
  /\ currentX = -1
  /\ currentIndex = -1
  /\ isActive = FALSE
  /\ jsQueue = <<>>
  /\ gesture = "none"

LocateInit ==
  /\ timestamps \in KeyArrays
  /\ xRelative \in Queries
  /\ left = 0
  /\ right = 0
  /\ pc = "entry"
  /\ closestIndex = NoIndex
  /\ curves = 0
  /\ closestPathCurve = NoIndex
  /\ GestureIdle

Enter ==
  /\ pc = "entry"
  /\ left' = 0
  /\ right' = Length(timestamps) - 1
  /\ pc' = "low"
  /\ UNCHANGED <<timestamps, xRelative, closestIndex, curves, closestPathCurve>>
  /\ UNCHANGED gestureVars

CheckLow ==
  /\ pc = "low"
  /\ IF lowEdge(timestamps, xRelative, left)
     THEN closestIndex' = left /\ pc' = "returned"
     ELSE closestIndex' = closestIndex /\ pc' = "high"
  /\ UNCHANGED <<timestamps, xRelative, left, right, curves, closestPathCurve>>
  /\ UNCHANGED gestureVars

CheckHigh ==
  /\ pc = "high"
  /\ IF highEdge(timestamps, xRelative, right)
     THEN closestIndex' = right /\ pc' = "returned"
     ELSE closestIndex' = closestIndex /\ pc' = "loop"
  /\ UNCHANGED <<timestamps, xRelative, left, right, curves, closestPathCurve>>
  /\ UNCHANGED gestureVars

LoopIter ==
  /\ pc = "loop"
  /\ loopCond(left, right)
  /\ LET mid == midOf(left, right)
     IN IF timestamps[mid] = xRelative
        THEN /\ closestIndex' = matchReturn(left, mid, right)
             /\ pc' = "returned"
             /\ UNCHANGED <<left, right>>
        ELSE IF timestamps[mid] < xRelative
        THEN /\ left' = mid + 1
             /\ UNCHANGED <<right, closestIndex, pc>>
        ELSE /\ right' = mid - 1
             /\ UNCHANGED <<left, closestIndex, pc>>
  /\ UNCHANGED <<timestamps, xRelative, curves, closestPathCurve>>
  /\ UNCHANGED gestureVars

LoopExit ==
  /\ pc = "loop"
  /\ ~loopCond(left, right)
  /\ pc' = "after_loop"
  /\ UNCHANGED <<timestamps, xRelative, left, right, closestIndex, curves,
                 closestPathCurve>>
  /\ UNCHANGED gestureVars

Compare ==
  /\ pc = "after_loop"
  /\ closestIndex' = closer(timestamps, xRelative, left, right)
  /\ pc' = "returned"
  /\ UNCHANGED <<timestamps, xRelative, left, right, curves, closestPathCurve>>
  /\ UNCHANGED gestureVars

CurveStep ==
  /\ pc = "returned"
  /\ \E c \in 1..MaxCurves :
       /\ curves' = c
       /\ closestPathCurve' = curveIndex(closestIndex, c, Length(timestamps))
  /\ pc' = "done"
  /\ UNCHANGED <<timestamps, xRelative, left, right, closestIndex>>
  /\ UNCHANGED gestureVars

LocateNext ==
  \/ Enter
  \/ CheckLow
  \/ CheckHigh
  \/ LoopIter
  \/ LoopExit
  \/ Compare
  \/ CurveStep

SpecLocate == LocateInit /\ [][LocateNext]_vars

\* ---- SpecGesture: the gesture handlers and the deferred JS-thread calls ----
DataArrays == UNION {{a \in [0..(n - 1) -> 0..MaxTs] : Ascending(a)} : n \in 2..MaxN}

Domains == {d \in [min : 0..MaxTs, max : 0..MaxTs] : d.min < d.max}

Paths == {[curves |-> c] : c \in 1..MaxPathCurves}

TouchXs == (0 - XMargin)..(MaxWidth + XMargin)

clampXNoUpper(x, w) == max(0, x)

clampX(x, w) == max(0, IF x <= w THEN x ELSE w)

\* Math.round(a / b) for b > 0: the nearest integer, halves upwards
roundDiv(a, b) == (2 * a + b) \div (2 * b)

\* xPosition / width / (1 / (n - 1)) is xPosition * (n - 1) / width
boundedIndex(xPosition, w, n) == max(0, roundDiv(xPosition * (n - 1), w))

xValues(d, dom) == [i \in DOMAIN d |-> IF dom # Undefined THEN d[i] ELSE i]

domainArray(dom, ts) == IF dom = Undefined THEN [min |-> 0, max |-> Length(ts)] ELSE dom

\* scaleX.invert(xPosition) = min + (xPosition / w) * (max - min); the model
\* keeps w times that value and compares it with w times each timestamp
invertTimesWidth(dom, w, xPosition) == dom.min * w + xPosition * (dom.max - dom.min)

timesWidth(ts, w) == [i \in DOMAIN ts |-> ts[i] * w]

\* the shared values as useLineChart hands them over before any gesture
SharedValuesInit ==
  /\ currentX = -1
  /\ currentIndex = -1
  /\ isActive = FALSE

GestureInit ==
  /\ data \in DataArrays
  /\ width \in 1..MaxWidth
  /\ snapToPoint \in BOOLEAN
  /\ xDomain \in {Undefined} \cup Domains
  /\ parsedPath \in {Undefined} \cup Paths
  /\ SharedValuesInit
  /\ jsQueue = <<>>
  /\ gesture = "none"
  /\ LocateIdle

onActive ==
  /\ \E x \in TouchXs :
       IF parsedPath # Undefined
       THEN LET xPosition == clampX(x, width)
            IN /\ isActive' = TRUE
               /\ currentX' = xPosition
               /\ IF snapToPoint
                  THEN /\ Len(jsQueue) < MaxPending
                       /\ jsQueue' = Append(jsQueue,
                            [timestamps |-> xValues(data, xDomain),
                             width |-> width,
                             xPosition |-> xPosition,
                             path |-> parsedPath,
                             xDomain |-> xDomain])
                       /\ UNCHANGED currentIndex
                  ELSE /\ currentIndex' = boundedIndex(xPosition, width, Length(data))
                       /\ UNCHANGED jsQueue
       ELSE UNCHANGED <<isActive, currentX, currentIndex, jsQueue>>
  /\ gesture' = "active"
  /\ UNCHANGED <<data, width, snapToPoint, xDomain, parsedPath>>
  /\ UNCHANGED locateVars

onEnd ==
  /\ isActive' = FALSE
  /\ currentIndex' = -1
  /\ gesture' = "end"
  /\ UNCHANGED <<data, width, snapToPoint, xDomain, parsedPath, currentX, jsQueue>>
  /\ UNCHANGED locateVars

\* one queued call of linearScalePositionAndIndex runs on the JS thread
linearScalePositionAndIndex ==
  /\ jsQueue # <<>>
  /\ LET call == Head(jsQueue)
         dom == domainArray(call.xDomain, call.timestamps)
         xRel == invertTimesWidth(dom, call.width, call.xPosition)
         closest == findClosestIndex(timesWidth(call.timestamps, call.width), xRel)
         c == call.path.curves
         curve == curveIndex(closest, c, Length(call.timestamps))
     IN IF call.path = Undefined
        THEN UNCHANGED currentIndex
        ELSE IF closest > 0 /\ curve \notin 0..(c - 1)
        THEN UNCHANGED currentIndex   \* path.curves[curve] is undefined: TypeError
        ELSE currentIndex' = closest
  /\ jsQueue' = Tail(jsQueue)
  /\ UNCHANGED <<data, width, snapToPoint, xDomain, parsedPath, currentX, isActive,
                 gesture>>
  /\ UNCHANGED locateVars

GestureNext ==
  \/ onActive
  \/ onEnd
  \/ linearScalePositionAndIndex

SpecGesture == GestureInit /\ [][GestureNext]_vars

\* ---- properties of findClosestIndex (SpecLocate) ----
Returned == pc \in {"returned", "done"}

LastIndex == Length(timestamps) - 1

HasDuplicate == \E i \in DOMAIN timestamps : \E j \in DOMAIN timestamps : i # j /\ timestamps[i] = timestamps[j]

\* C1: the returned index is in 0..length-1 and no key is closer to the query
\* than the key at the returned index.
ClosestKeyReturned ==
  Returned =>
    /\ closestIndex \in 0..LastIndex
    /\ \A j \in DOMAIN timestamps :
         abs(timestamps[closestIndex] - xRelative) <= abs(timestamps[j] - xRelative)

ClosestKeyWitness ==
  /\ Returned
  /\ HasDuplicate
  /\ timestamps[0] < xRelative /\ xRelative < timestamps[LastIndex]
  /\ \A j \in DOMAIN timestamps : timestamps[j] # xRelative
  /\ closestIndex = right
  /\ right = left - 1

\* C3 as stated: for keys = [0, 10] and query = 5 the result is index 0.
TieExample == timestamps = [i \in 0..1 |-> 10 * i] /\ xRelative = 5

TieExampleReturnsZero == (Returned /\ TieExample) => closestIndex = 0

\* C3 amended: for keys = [0, 10] and query = 5 the result is index 1, the
\* key above the query.
TieExampleReturnsOne == (Returned /\ TieExample) => closestIndex = 1

TieExampleWitness == pc = "returned" /\ TieExample /\ left = 1 /\ right = 0

\* C4 as stated: every query >= keys[last] yields last.
HighQueryReturnsLast ==
  (Returned /\ xRelative >= timestamps[LastIndex]) => closestIndex = LastIndex

\* C4 amended: every query >= keys[last] yields last, unless the query is
\* also <= keys[0] (all keys equal the query), where the result is 0.
HighQueryReturnsLastUnlessLow ==
  (Returned /\ xRelative >= timestamps[LastIndex]) =>
    closestIndex = (IF xRelative <= timestamps[0] THEN 0 ELSE LastIndex)

HighQueryWitness ==
  /\ pc = "returned"
  /\ LastIndex >= 2
  /\ timestamps[LastIndex - 1] = timestamps[LastIndex]
  /\ xRelative = timestamps[LastIndex]
  /\ xRelative > timestamps[0]
  /\ closestIndex = LastIndex

InteriorMatches == {i \in 1..(LastIndex - 1) : timestamps[i] = xRelative}

OnlyOccurrence(i) == \A j \in DOMAIN timestamps : j # i => timestamps[j] # timestamps[i]

\* C5 as stated: a query equal to an interior key keys[i] yields exactly i.
InteriorKeyReturnsItsIndex ==
  Returned => \A i \in InteriorMatches : closestIndex = i

\* C5 amended: a query equal to an interior key keys[i] yields an index whose
\* key equals keys[i], and yields i itself when keys[i] occurs only once.
InteriorKeyReturnsEqualKey ==
  Returned =>
    \A i \in InteriorMatches :
      /\ closestIndex \in DOMAIN timestamps
      /\ timestamps[closestIndex] = timestamps[i]
      /\ OnlyOccurrence(i) => closestIndex = i

InteriorKeyWitness ==
  /\ pc = "returned"
  /\ LastIndex = 3
  /\ HasDuplicate
  /\ \E i \in InteriorMatches : OnlyOccurrence(i) /\ closestIndex = i /\ left < i

\* C6: the result is non-decreasing in the query.
Monotone ==
  Returned =>
    \A q \in Queries :
      /\ q >= xRelative => closestIndex <= findClosestIndex(timestamps, q)
      /\ q <= xRelative => findClosestIndex(timestamps, q) <= closestIndex

MonotoneWitness ==
  /\ pc = "returned"
  /\ HasDuplicate
  /\ closestIndex \in 1..(LastIndex - 1)
  /\ \E q \in Queries : q > xRelative /\ findClosestIndex(timestamps, q) > closestIndex
  /\ \E q \in Queries : q < xRelative /\ findClosestIndex(timestamps, q) < closestIndex

Equidistant(k) ==
  /\ timestamps[k] < xRelative
  /\ xRelative < timestamps[k + 1]
  /\ xRelative - timestamps[k] = timestamps[k + 1] - xRelative

\* C8: a query strictly between two adjacent keys and equally far from both
\* yields the upper one, k+1, which is `left` after the loop.
TieReturnsUpper ==
  Returned =>
    \A k \in 0..(LastIndex - 1) : Equidistant(k) => closestIndex = k + 1 /\ left = k + 1

TieReturnsUpperWitness ==
  /\ pc = "returned"
  /\ LastIndex >= 2
  /\ \E k \in 1..(LastIndex - 1) : Equidistant(k) /\ closestIndex = k + 1

\* C9: when the loop exits without an exact match, right = left - 1, both are
\* valid indices and keys[right] < query < keys[left].
LoopExitCrossed ==
  pc = "after_loop" =>
    /\ right = left - 1
    /\ 0 <= right
    /\ left <= LastIndex
    /\ timestamps[right] < xRelative
    /\ xRelative < timestamps[left]
    /\ timestamps[0] < xRelative
    /\ xRelative < timestamps[LastIndex]

LoopExitWitness ==
  /\ pc = "after_loop"
  /\ LastIndex >= 3
  /\ right >= 1
  /\ left <= LastIndex - 1

clamp(v, lo, hi) == max(lo, min(v, hi))

\* C10: the curve index max(min(i, c+1) - delta, 0) equals
\* clamp(min(i, c+1) - delta, 0, c-1) and is a valid index 0..c-1.
CurveIndexClamped ==
  pc = "done" =>
    /\ closestPathCurve =
         clamp(min(closestIndex, curves + 1) - abs(curves - Length(timestamps)), 0, curves - 1)
    /\ closestPathCurve \in 0..(curves - 1)

CurveIndexWitness ==
  /\ pc = "done"
  /\ closestIndex > curves + 1
  /\ closestPathCurve = 0

\* ---- properties of the gesture handlers (SpecGesture) ----
\* C2: in snap-to-point mode, once onEnd has run and every queued call has
\* finished, currentIndex = -1 and isActive = FALSE.
ReleaseWins ==
  (snapToPoint /\ gesture = "end" /\ jsQueue = <<>>) =>
    (currentIndex = -1 /\ isActive = FALSE)

\* C7: currentIndex is -1 or an index 0..n-1 of data.
IndexInRange == currentIndex = -1 \/ currentIndex \in 0..(Length(data) - 1)

IndexInRangeWitness ==
  /\ snapToPoint
  /\ xDomain # Undefined
  /\ Length(data) = 3
  /\ currentIndex = 2
  /\ currentX = width
  /\ isActive
  /\ jsQueue = <<>>

====
